---- MODULE Spec2Model ----
(***************************************************************************)
(* Model of the ChatPage component of src/app/chat/page.tsx: the message   *)
(* log, the query pipeline (sendQuery and the converse endpoint), the      *)
(* voice pipeline (handleVoiceInput, MediaRecorder, the voice-query        *)
(* endpoint), the upload pipeline (handleUpload, uploadWithProgress) and   *)
(* the selection popup.                                                    *)
(*                                                                         *)
(* The component runs on the browser's single-threaded event loop: every   *)
(* action below is one run-to-completion step (a user event handler, or    *)
(* the continuation of an async function after one await).  React commits  *)
(* the state updates of a step before the next user event is dispatched,   *)
(* so a handler invoked by a user event reads the current state, while a   *)
(* continuation reads the values its closure captured when the handler     *)
(* was created (the session record keeps what the onstop closure of        *)
(* handleVoiceInput captured).                                             *)
(*                                                                         *)
(* Strings the code inspects (trim) are sequences of one-character         *)
(* strings.  Message ids (makeId) are drawn from a counter; createdAt, the *)
(* audio bytes, the reference popup (never opened by the code) and the     *)
(* export are not modelled.                                                *)
(*                                                                         *)
(* Next is every operation.  The properties are checked under the          *)
(* specifications of the pipelines they are about (SpecVoice, SpecDoc,     *)
(* SpecQuery, SpecUpload, SpecSend, SpecConv, LiveVoice), each the         *)
(* operations of those pipelines.                                          *)
(***************************************************************************)
EXTENDS Integers, Sequences, FiniteSets, TLC

\* ---- bounds of the model
MaxQueries == 2
MaxSessions == 2
MaxLoads == 2

\* ---- values.  A text is a sequence of characters; the fixed texts of the
\* code and the answers of the server are one-token sequences.
\* what the user types or selects, and what a transcript may be: empty, blank,
\* and non-blank with a blank to trim
Texts == {<<>>, <<" ">>, <<" ", "a">>}

NullText == <<"null">>
NoError == "null"
NoDocId == "none"
NoDoc == [id |-> NoDocId, name |-> "none"]
NoFile == "none"
NoProgress == -1
NoRecorder == 0
NoConv == "null"

Files == {"a.pdf"}
ProgressPcts == {50}
FailStatuses == {500}

WelcomeText == <<"Hello! I'm here to help you with your documents. Ask me any questions.">>
\* the source's text has an em dash where this one has a hyphen
FallbackText == <<"Sorry - something went wrong.">>
NotHeardText == <<"I couldn't hear a question.">>
VoiceFailedText == <<"Voice processing failed.">>
MicErrorText == "Microphone access denied or unavailable."
MissingIdText == "Upload response missing id"
UploadNetworkText == "Upload network error"
FetchFailedText == "Failed to fetch"

ServerErrorText(st) == "Server error " \o ToString(st)
UploadFailedText(st) == "Upload failed: " \o ToString(st)

\* ---- String.prototype.trim
RECURSIVE TrimStart(_)
TrimStart(s) == IF s # <<>> /\ Head(s) = " " THEN TrimStart(Tail(s)) ELSE s

RECURSIVE TrimEnd(_)
TrimEnd(s) == IF s # <<>> /\ s[Len(s)] = " " THEN TrimEnd(SubSeq(s, 1, Len(s) - 1)) ELSE s

Trim(s) == TrimEnd(TrimStart(s))

VARIABLES
  messages,          \* the message log (useState messages)
  nextId,            \* makeId: the next fresh identifier
  pushes,            \* history: number of pushMessage calls
  inputValue, isLoading, error,
  uploadedFile, uploadedDoc, isUploading, uploadProgress,
  showUploadModal,
  xhrs,              \* upload transfers in flight, each with the file it sends
  isRecording, mediaRecorderRef,
  sessions,          \* recording sessions: recorder, timer, closure, request
  stopPressed,       \* history: the user pressed Stop since the last start
  selection,         \* window.getSelection().toString()
  selectedText, popupPosition,
  conversationId, storage,
  loads,             \* history: number of application loads
  queries,           \* converse requests in flight
  nQueries           \* history: number of converse requests sent

vars == <<messages, nextId, pushes, inputValue, isLoading, error,
          uploadedFile, uploadedDoc, isUploading, uploadProgress,
          showUploadModal, xhrs,
          isRecording, mediaRecorderRef, sessions, stopPressed,
          selection, selectedText, popupPosition,
          conversationId, storage, loads, queries, nQueries>>

msgVars == <<messages, nextId, pushes>>
uploadVars == <<uploadedFile, uploadedDoc, isUploading, uploadProgress,
                showUploadModal, xhrs>>
voiceVars == <<isRecording, mediaRecorderRef, sessions, stopPressed>>
selVars == <<selection, selectedText, popupPosition>>
convVars == <<conversationId, storage, loads>>
queryVars == <<isLoading, error, queries, nQueries>>

\* ---- construction: useState initialisers and the conversation-id effect
\* (lines 130-146): the stored identifier if there is one, else a fresh one,
\* which is then stored.  makeId("conv-") gives an identifier never given
\* before: the n-th load's is numbered n.
FreshConv(n) == "conv-" \o ToString(n)

\* (mutant) the stored identifier ignored
MountConversationIdFresh(stored, n) == FreshConv(n)

MountConversationId(stored, n) == IF stored # NoConv THEN stored ELSE FreshConv(n)

Init ==
  /\ messages = << [id |-> 0, role |-> "assistant", content |-> WelcomeText, q |-> 0] >>
  /\ nextId = 1
  /\ pushes = 0
  /\ inputValue = <<>>
  /\ isLoading = FALSE
  /\ error = NoError
  /\ uploadedFile = NoFile
  /\ uploadedDoc = NoDoc
  /\ isUploading = FALSE
  /\ uploadProgress = NoProgress
  /\ showUploadModal = FALSE
  /\ xhrs = <<>>
  /\ isRecording = FALSE
  /\ mediaRecorderRef = NoRecorder
  /\ sessions = <<>>
  /\ stopPressed = FALSE
  /\ selection = <<>>
  /\ selectedText = NullText
  /\ popupPosition = FALSE
  /\ conversationId = MountConversationId(NoConv, 1)
  /\ storage = MountConversationId(NoConv, 1)
  /\ loads = 1
  /\ queries = {}
  /\ nQueries = 0

\* ---- a later load of the application: the page and everything in flight
\* are gone, the component is constructed again (lines 96-146).  The stored
\* identifier persists or was cleared meanwhile (or getItem throws, line
\* 133); setItem stores a fresh identifier or throws (lines 142-144).
Reload(persists, writable) ==
  /\ loads < MaxLoads
  /\ loads' = loads + 1
  /\ LET stored == IF persists THEN storage ELSE NoConv
         id == MountConversationId(stored, loads + 1)
     IN /\ conversationId' = id
        /\ storage' = IF stored # NoConv THEN stored
                      ELSE IF writable THEN id ELSE NoConv
  /\ messages' = << [id |-> 0, role |-> "assistant", content |-> WelcomeText, q |-> 0] >>
  /\ nextId' = 1
  /\ pushes' = 0
  /\ inputValue' = <<>>
  /\ isLoading' = FALSE
  /\ error' = NoError
  /\ uploadedFile' = NoFile
  /\ uploadedDoc' = NoDoc
  /\ isUploading' = FALSE
  /\ uploadProgress' = NoProgress
  /\ showUploadModal' = FALSE
  /\ xhrs' = <<>>
  /\ isRecording' = FALSE
  /\ mediaRecorderRef' = NoRecorder
  /\ sessions' = <<>>
  /\ stopPressed' = FALSE
  /\ selection' = <<>>
  /\ selectedText' = NullText
  /\ popupPosition' = FALSE
  /\ queries' = {}
  /\ nQueries' = 0

\* (mutant) the new message put first: setMessages((p) => [m, ...p])
pushMessageFirst(m) ==
  /\ messages' = <<m>> \o messages
  /\ nextId' = nextId + 1
  /\ pushes' = pushes + 1

\* ---- pushMessage (lines 155-157): setMessages((p) => [...p, m])
pushMessage(m) ==
  /\ messages' = Append(messages, m)
  /\ nextId' = nextId + 1
  /\ pushes' = pushes + 1

UserMessage(text, q) == [id |-> nextId, role |-> "user", content |-> text, q |-> q]
AssistantMessage(text, q) == [id |-> nextId, role |-> "assistant", content |-> text, q |-> q]

\* ---- sendQuery up to its await (lines 263-280).  doc and conv are the
\* uploadedDoc and conversationId of the closure that runs it; origin is the
\* caller, whose continuation runs when the query settles.
ConversePayload(queryText, doc, conv) ==
  [query |-> queryText,
   docId |-> IF doc # NoDoc THEN doc.id ELSE NoDocId,
   conversationId |-> conv]

\* (mutant) the request sent with no optimistic user message
sendQueryNoUserMessage(queryText, doc, conv, origin) ==
  IF Trim(queryText) = <<>>
  THEN UNCHANGED <<msgVars, queryVars>>
  ELSE LET q == nQueries + 1 IN
       /\ isLoading' = TRUE
       /\ error' = NoError
       /\ UNCHANGED msgVars
       /\ nQueries' = q
       /\ queries' = queries \cup
            {[q |-> q, origin |-> origin,
              payload |-> ConversePayload(queryText, doc, conv)]}

\* (mutant) sendQuery without the guard of line 264
sendQueryNoGuard(queryText, doc, conv, origin) ==
  LET q == nQueries + 1 IN
  /\ isLoading' = TRUE
  /\ error' = NoError
  /\ pushMessage(UserMessage(queryText, q))
  /\ nQueries' = q
  /\ queries' = queries \cup
       {[q |-> q, origin |-> origin,
         payload |-> ConversePayload(queryText, doc, conv)]}

sendQuery(queryText, doc, conv, origin) ==
  IF Trim(queryText) = <<>>
  THEN UNCHANGED <<msgVars, queryVars>>
  ELSE LET q == nQueries + 1 IN
       /\ isLoading' = TRUE
       /\ error' = NoError
       /\ pushMessage(UserMessage(queryText, q))
       /\ nQueries' = q
       /\ queries' = queries \cup
            {[q |-> q, origin |-> origin,
              payload |-> ConversePayload(queryText, doc, conv)]}

\* a call of sendQuery with any text, from a caller that does nothing else
\* (lines 263-264 guard the function itself, whoever calls it)
sendQueryCall(t) ==
  /\ nQueries < MaxQueries
  /\ sendQuery(t, uploadedDoc, conversationId, "call")
  /\ UNCHANGED <<inputValue, uploadVars, voiceVars, selVars, convVars>>

\* the caller's continuation after `await sendQuery(...)`: handleSendMessage
\* clears the input (line 300); the other callers do nothing more.
AfterQuery(origin) ==
  IF origin = "input" THEN inputValue' = <<>> ELSE UNCHANGED inputValue

\* ---- the text input (line 386): onChange, disabled while isLoading
SetInput(t) ==
  /\ ~isLoading
  /\ t # inputValue
  /\ inputValue' = t
  /\ UNCHANGED <<msgVars, queryVars, uploadVars, voiceVars, selVars, convVars>>

\* ---- handleSendMessage (lines 297-301), from Enter or the send button,
\* both off while isLoading (lines 386-387)
handleSendMessage ==
  /\ ~isLoading
  /\ nQueries < MaxQueries
  /\ IF Trim(inputValue) = <<>>
     THEN UNCHANGED <<msgVars, queryVars>>
     ELSE sendQuery(inputValue, uploadedDoc, conversationId, "input")
  /\ UNCHANGED <<inputValue, uploadVars, voiceVars, selVars, convVars>>

\* (mutant) the catch without setError
QueryFailedSilent(r, msg) ==
  /\ pushMessage(AssistantMessage(FallbackText, r.q))
  /\ isLoading' = FALSE
  /\ queries' = queries \ {r}
  /\ AfterQuery(r.origin)
  /\ UNCHANGED <<error, nQueries, uploadVars, voiceVars, selVars, convVars>>

\* (mutant) the catch sends the request again
QueryFailedRetry(r, msg) ==
  /\ pushMessage(AssistantMessage(FallbackText, r.q))
  /\ error' = msg
  /\ isLoading' = TRUE
  /\ nQueries' = nQueries + 1
  /\ queries' = (queries \ {r}) \cup {[r EXCEPT !.q = nQueries + 1]}
  /\ AfterQuery(r.origin)
  /\ UNCHANGED <<uploadVars, voiceVars, selVars, convVars>>

\* ---- the catch and finally of sendQuery (lines 288-294)
QueryFailed(r, msg) ==
  /\ pushMessage(AssistantMessage(FallbackText, r.q))
  /\ error' = msg
  /\ isLoading' = FALSE
  /\ queries' = queries \ {r}
  /\ AfterQuery(r.origin)
  /\ UNCHANGED <<nQueries, uploadVars, voiceVars, selVars, convVars>>

\* fetch rejects (network failure), or res.json() rejects after an ok status
ConverseNetworkError(r) ==
  /\ r \in queries
  /\ QueryFailed(r, FetchFailedText)

\* fetch resolves with !res.ok (lines 281-282)
ConverseStatusError(r, st) ==
  /\ r \in queries
  /\ QueryFailed(r, ServerErrorText(st))

\* ---- the answer of a parsed body (line 285):
\*   body?.answer ?? body?.assistantText ?? (typeof body === "string" ? body : "")
\* A body is an object with the two fields (Missing when absent or null) or a
\* JSON string.
Missing == <<"<missing>">>
ConverseBodies ==
  { [kind |-> "object", answer |-> <<"ans">>, assistantText |-> Missing, text |-> <<>>],
    [kind |-> "object", answer |-> Missing, assistantText |-> <<"ans">>, text |-> <<>>],
    [kind |-> "string", answer |-> Missing, assistantText |-> Missing, text |-> <<"ans">>],
    [kind |-> "object", answer |-> Missing, assistantText |-> Missing, text |-> <<>>] }

AnswerOf(body) ==
  IF body.answer # Missing THEN body.answer
  ELSE IF body.assistantText # Missing THEN body.assistantText
  ELSE IF body.kind = "string" THEN body.text
  ELSE <<>>

\* fetch resolves with res.ok and res.json() resolves with body (lines
\* 284-286), then finally (line 293).  Between the two awaits the function
\* changes nothing, so they are one step.
ConverseBody(r, body) ==
  /\ r \in queries
  /\ pushMessage(AssistantMessage(AnswerOf(body), r.q))
  /\ isLoading' = FALSE
  /\ queries' = queries \ {r}
  /\ AfterQuery(r.origin)
  /\ UNCHANGED <<error, nQueries, uploadVars, voiceVars, selVars, convVars>>

\* ---- handleVoiceInput (lines 196-240).  A session record holds the
\* recorder of one press of Voice: phase "mic" while getUserMedia is pending,
\* "denied" when it rejected, "recording" while mr.state is not inactive,
\* "stopping" once mr.stop() made it inactive and its stop event is queued,
\* "stt" while the onstop handler awaits the voice-query fetch and its body,
\* "done" after.  doc and conv are the uploadedDoc and
\* conversationId of the render whose handleVoiceInput was invoked: the
\* onstop closure and the sendQuery it calls read these.  timer is the pending
\* 25 s timeout; stream tells whether the session's MediaStream is live; form
\* is the form data of its voice-query request while it is in flight.  Once
\* onstop has finished nothing runs the closure again: the record of a "done"
\* session drops what it captured.
NoForm == [docId |-> "<unsent>"]

NewSession ==
  [phase |-> "mic", doc |-> uploadedDoc, conv |-> conversationId,
   timer |-> FALSE, stream |-> FALSE, form |-> NoForm]

\* the button pressed while isRecording is false (lines 197-201)
VoiceStart ==
  /\ ~isRecording
  /\ Len(sessions) < MaxSessions
  /\ isRecording' = TRUE
  /\ sessions' = Append(sessions, NewSession)
  /\ stopPressed' = FALSE
  /\ UNCHANGED <<mediaRecorderRef, msgVars, inputValue, queryVars,
                 uploadVars, selVars, convVars>>

\* MediaRecorder.stop(): an active recorder becomes inactive and its stop
\* event is queued; on an inactive one the call changes nothing.
RecorderStop(s) ==
  IF sessions[s].phase = "recording"
  THEN sessions' = [sessions EXCEPT ![s].phase = "stopping"]
  ELSE UNCHANGED sessions

\* the button pressed while isRecording is true (line 238)
VoiceToggleStop ==
  /\ isRecording
  /\ IF mediaRecorderRef # NoRecorder
     THEN RecorderStop(mediaRecorderRef)
     ELSE UNCHANGED sessions
  /\ stopPressed' = TRUE
  /\ UNCHANGED <<isRecording, mediaRecorderRef, msgVars, inputValue,
                 queryVars, uploadVars, selVars, convVars>>

\* getUserMedia resolves (lines 201-231): recorder created, stored in the
\* ref and started, timer armed
MicGranted(s) ==
  /\ s \in DOMAIN sessions /\ sessions[s].phase = "mic"
  /\ sessions' = [sessions EXCEPT ![s].phase = "recording",
                                  ![s].timer = TRUE,
                                  ![s].stream = TRUE]
  /\ mediaRecorderRef' = s
  /\ UNCHANGED <<isRecording, stopPressed, msgVars, inputValue, queryVars,
                 uploadVars, selVars, convVars>>

\* (mutant) the catch without setIsRecording(false)
MicDeniedStillRecording(s) ==
  /\ s \in DOMAIN sessions /\ sessions[s].phase = "mic"
  /\ sessions' = [sessions EXCEPT ![s].phase = "denied", ![s].doc = NoDoc]
  /\ error' = MicErrorText
  /\ UNCHANGED <<isRecording, mediaRecorderRef, stopPressed, msgVars, inputValue, isLoading,
                 queries, nQueries, uploadVars, selVars, convVars>>

\* getUserMedia rejects (lines 232-236)
MicDenied(s) ==
  /\ s \in DOMAIN sessions /\ sessions[s].phase = "mic"
  /\ sessions' = [sessions EXCEPT ![s].phase = "denied", ![s].doc = NoDoc]
  /\ isRecording' = FALSE
  /\ error' = MicErrorText
  /\ UNCHANGED <<mediaRecorderRef, stopPressed, msgVars, inputValue, isLoading,
                 queries, nQueries, uploadVars, selVars, convVars>>

\* (mutant) the timeout stops the recorder of the ref, not its own:
\*   mediaRecorderRef.current?.stop()
TimerFireStopsCurrent(s) ==
  /\ s \in DOMAIN sessions /\ sessions[s].timer
  /\ sessions' = [ [sessions EXCEPT ![s].timer = FALSE] EXCEPT
        ![mediaRecorderRef].phase = IF @ = "recording" THEN "stopping" ELSE @ ]
  /\ UNCHANGED <<isRecording, mediaRecorderRef, stopPressed, msgVars, inputValue,
                 queryVars, uploadVars, selVars, convVars>>

\* (mutant) the timeout fires and stops nothing
TimerFireNoStop(s) ==
  /\ s \in DOMAIN sessions /\ sessions[s].timer
  /\ sessions' = [sessions EXCEPT ![s].timer = FALSE]
  /\ UNCHANGED <<isRecording, mediaRecorderRef, stopPressed, msgVars, inputValue,
                 queryVars, uploadVars, selVars, convVars>>

\* the 25 s timeout (lines 229-231): if (mr.state !== "inactive") mr.stop()
TimerFire(s) ==
  /\ s \in DOMAIN sessions /\ sessions[s].timer
  /\ sessions' = [sessions EXCEPT
        ![s].timer = FALSE,
        ![s].phase = IF sessions[s].phase = "recording" THEN "stopping" ELSE @]
  /\ UNCHANGED <<isRecording, mediaRecorderRef, stopPressed, msgVars, inputValue,
                 queryVars, uploadVars, selVars, convVars>>

\* the form of the voice-query request (lines 209-212)
VoiceForm(doc) == [docId |-> IF doc # NoDoc THEN doc.id ELSE NoDocId]

\* mr.onstop up to its await (lines 207-214)
OnStop(s) ==
  /\ s \in DOMAIN sessions /\ sessions[s].phase = "stopping"
  /\ isRecording' = FALSE
  /\ sessions' = [sessions EXCEPT ![s].phase = "stt",
                                  ![s].form = VoiceForm(sessions[s].doc)]
  /\ UNCHANGED <<mediaRecorderRef, stopPressed, msgVars, inputValue, queryVars,
                 uploadVars, selVars, convVars>>

\* the catch of onstop (lines 223-226)
SessionDone(s) ==
  sessions' = [sessions EXCEPT ![s].phase = "done", ![s].doc = NoDoc, ![s].form = NoForm]

VoiceFailed(s) ==
  /\ pushMessage(AssistantMessage(VoiceFailedText, 0))
  /\ SessionDone(s)
  /\ UNCHANGED <<isRecording, mediaRecorderRef, stopPressed, inputValue, queryVars,
                 uploadVars, selVars, convVars>>

\* the voice-query fetch rejects or resolves with !rsp.ok (line 215), or
\* rsp.json() rejects
VoiceError(s) ==
  /\ s \in DOMAIN sessions /\ sessions[s].phase = "stt"
  /\ VoiceFailed(s)

\* ---- the transcript of a parsed body (line 217): j?.question ?? j?.transcript.
\* A field is Missing (absent or null), NotString (a number, an object) or a text.
NotString == <<"<number>">>
VoiceBodies ==
  { [question |-> <<" ", "a">>, transcript |-> Missing],
    [question |-> Missing, transcript |-> <<" ", "a">>],
    [question |-> <<>>, transcript |-> <<" ", "a">>],
    [question |-> <<" ">>, transcript |-> Missing],
    [question |-> NotString, transcript |-> <<" ", "a">>],
    [question |-> Missing, transcript |-> Missing] }

QuestionOf(j) == IF j.question # Missing THEN j.question ELSE j.transcript

\* (mutant) the test without trim: typeof question === "string" && question
IsQuestionNoTrim(v) == v # Missing /\ v # NotString /\ v # <<>>

\* typeof question === "string" && question.trim() (line 218)
IsQuestion(v) == v # Missing /\ v # NotString /\ Trim(v) # <<>>

\* the fetch resolves with rsp.ok and rsp.json() resolves with j (lines
\* 214-222); between the two awaits onstop changes nothing
VoiceBody(s, j) ==
  /\ s \in DOMAIN sessions /\ sessions[s].phase = "stt"
  /\ IF IsQuestion(QuestionOf(j))
     THEN /\ nQueries < MaxQueries
          /\ sendQuery(QuestionOf(j), sessions[s].doc, sessions[s].conv, "voice")
     ELSE /\ pushMessage(AssistantMessage(NotHeardText, 0))
          /\ UNCHANGED queryVars
  /\ SessionDone(s)
  /\ UNCHANGED <<isRecording, mediaRecorderRef, stopPressed, inputValue,
                 uploadVars, selVars, convVars>>

\* ---- the upload modal (lines 382, 410, 422)
OpenUploadModal ==
  /\ ~showUploadModal
  /\ showUploadModal' = TRUE
  /\ UNCHANGED <<uploadedFile, uploadedDoc, isUploading, uploadProgress,
                 xhrs, msgVars, inputValue, queryVars,
                 voiceVars, selVars, convVars>>

CloseUploadModal ==
  /\ showUploadModal
  /\ showUploadModal' = FALSE
  /\ UNCHANGED <<uploadedFile, uploadedDoc, isUploading, uploadProgress,
                 xhrs, msgVars, inputValue, queryVars,
                 voiceVars, selVars, convVars>>

\* ---- handleFileSelect (lines 160-166), from the file input or a drop,
\* both inside the modal
handleFileSelect(f) ==
  /\ showUploadModal
  /\ uploadedFile' = f
  /\ UNCHANGED <<uploadedDoc, isUploading, uploadProgress, showUploadModal,
                 xhrs, msgVars, inputValue, queryVars,
                 voiceVars, selVars, convVars>>

\* the Remove button beside the selected file (line 419)
RemoveSelectedFile ==
  /\ showUploadModal /\ uploadedFile # NoFile
  /\ uploadedFile' = NoFile
  /\ UNCHANGED <<uploadedDoc, isUploading, uploadProgress, showUploadModal,
                 xhrs, msgVars, inputValue, queryVars,
                 voiceVars, selVars, convVars>>

\* the Remove button beside the uploaded document (line 394)
RemoveDocument ==
  /\ uploadedDoc # NoDoc
  /\ uploadedDoc' = NoDoc
  /\ UNCHANGED <<uploadedFile, isUploading, uploadProgress, showUploadModal,
                 xhrs, msgVars, inputValue, queryVars,
                 voiceVars, selVars, convVars>>

\* (mutant) the Upload button not disabled while a transfer is in flight
handleUploadNotDisabled ==
  /\ showUploadModal /\ uploadedFile # NoFile
  /\ isUploading' = TRUE
  /\ error' = NoError
  /\ uploadProgress' = 0
  /\ xhrs' = Append(xhrs, uploadedFile)
  /\ UNCHANGED <<uploadedFile, uploadedDoc, showUploadModal,
                 msgVars, inputValue, isLoading, queries, nQueries,
                 voiceVars, selVars, convVars>>

\* ---- handleUpload up to its await (lines 169-176); the Upload button is
\* rendered in the modal when a file is selected, disabled while isUploading
\* (line 420).  The transfer keeps the file of the closure.  The success
\* notice (showSuccess and its 3.5 s timeout, lines 184-185) is view state no
\* operation reads; it is left out.
handleUpload ==
  /\ showUploadModal /\ uploadedFile # NoFile /\ ~isUploading
  /\ isUploading' = TRUE
  /\ error' = NoError
  /\ uploadProgress' = 0
  /\ xhrs' = Append(xhrs, uploadedFile)
  /\ UNCHANGED <<uploadedFile, uploadedDoc, showUploadModal,
                 msgVars, inputValue, isLoading, queries, nQueries,
                 voiceVars, selVars, convVars>>

\* xhr.upload.onprogress (lines 67-72)
UploadProgressEvent(x, p) ==
  /\ x \in DOMAIN xhrs
  /\ p # uploadProgress
  /\ uploadProgress' = p
  /\ UNCHANGED <<uploadedFile, uploadedDoc, isUploading, showUploadModal,
                 xhrs, msgVars, inputValue, queryVars,
                 voiceVars, selVars, convVars>>

\* (mutant) the finally without setUploadProgress(null)
UploadFinallyKeepsProgress(x) ==
  /\ isUploading' = FALSE
  /\ UNCHANGED uploadProgress
  /\ xhrs' = SubSeq(xhrs, 1, x - 1) \o SubSeq(xhrs, x + 1, Len(xhrs))

\* the finally of handleUpload (lines 189-192)
UploadFinally(x) ==
  /\ isUploading' = FALSE
  /\ uploadProgress' = NoProgress
  /\ xhrs' = SubSeq(xhrs, 1, x - 1) \o SubSeq(xhrs, x + 1, Len(xhrs))

\* the catch of handleUpload (lines 186-188)
UploadFailed(x, msg) ==
  /\ error' = msg
  /\ UploadFinally(x)
  /\ UNCHANGED <<uploadedFile, uploadedDoc, showUploadModal, msgVars, inputValue, isLoading, queries, nQueries,
                 voiceVars, selVars, convVars>>

\* ---- the identifier and name of an upload response (lines 177-178):
\*   id = data?.file?.id ?? data?.docId ?? data?.id;  name = data?.file?.name ?? file.name
NoName == "<missing>"
UploadBodies ==
  { [fileId |-> "d1", fileName |-> "srv.pdf", docId |-> NoDocId, id |-> NoDocId],
    [fileId |-> NoDocId, fileName |-> NoName, docId |-> "d2", id |-> NoDocId],
    [fileId |-> NoDocId, fileName |-> NoName, docId |-> NoDocId, id |-> "d2"],
    [fileId |-> NoDocId, fileName |-> NoName, docId |-> NoDocId, id |-> NoDocId] }

UploadIdOf(data) ==
  IF data.fileId # NoDocId THEN data.fileId
  ELSE IF data.docId # NoDocId THEN data.docId
  ELSE data.id

UploadNameOf(data, file) == IF data.fileName # NoName THEN data.fileName ELSE file

\* xhr.onload with a 2xx status (lines 74-80), then lines 177-185 or the
\* throw of line 179
UploadLoaded(x, data) ==
  /\ x \in DOMAIN xhrs
  /\ IF UploadIdOf(data) = NoDocId
     THEN UploadFailed(x, MissingIdText)
     ELSE /\ uploadedDoc' = [id |-> UploadIdOf(data), name |-> UploadNameOf(data, xhrs[x])]
          /\ uploadedFile' = NoFile
          /\ UploadFinally(x)
          /\ UNCHANGED <<showUploadModal, msgVars, inputValue, queryVars,
                         voiceVars, selVars, convVars>>

\* xhr.onload with another status (lines 81-83)
UploadStatusError(x, st) ==
  /\ x \in DOMAIN xhrs
  /\ UploadFailed(x, UploadFailedText(st))

\* xhr.onerror (line 86)
UploadNetworkError(x) ==
  /\ x \in DOMAIN xhrs
  /\ UploadFailed(x, UploadNetworkText)

\* ---- the selection popup.  The browser's selection changes with no event
\* of the component (keyboard, a press outside the message area).
SelectionChange(t) ==
  /\ t # selection
  /\ selection' = t
  /\ UNCHANGED <<selectedText, popupPosition, msgVars, inputValue, queryVars,
                 uploadVars, voiceVars, convVars>>

\* handleMouseUp (lines 243-254), on the message area
handleMouseUp ==
  /\ IF Trim(selection) = <<>>
     THEN /\ popupPosition' = FALSE
          /\ selectedText' = NullText
     ELSE /\ selectedText' = selection
          /\ popupPosition' = TRUE
  /\ UNCHANGED <<selection, msgVars, inputValue, queryVars,
                 uploadVars, voiceVars, convVars>>

\* handleAskAgoraLearn (lines 256-260); its button is rendered when
\* popupPosition && selectedText (line 352)
handleAskAgoraLearn ==
  /\ popupPosition /\ selectedText # NullText /\ selectedText # <<>>
  /\ nQueries < MaxQueries
  /\ sendQuery(selectedText, uploadedDoc, conversationId, "selection")
  /\ UNCHANGED <<inputValue, uploadVars, voiceVars, selVars, convVars>>

\* ---- the next-state relation, by pipeline
InputNext ==
  \/ \E t \in Texts : SetInput(t)
  \/ handleSendMessage

ConverseNext ==
  \/ \E r \in queries : ConverseNetworkError(r)
  \/ \E r \in queries, st \in FailStatuses : ConverseStatusError(r, st)
  \/ \E r \in queries, body \in ConverseBodies : ConverseBody(r, body)

VoiceNext ==
  \/ VoiceStart
  \/ VoiceToggleStop
  \/ \E s \in DOMAIN sessions : MicGranted(s)
  \/ \E s \in DOMAIN sessions : MicDenied(s)
  \/ \E s \in DOMAIN sessions : TimerFire(s)
  \/ \E s \in DOMAIN sessions : OnStop(s)
  \/ \E s \in DOMAIN sessions : VoiceError(s)
  \/ \E s \in DOMAIN sessions, j \in VoiceBodies : VoiceBody(s, j)

UploadNext ==
  \/ OpenUploadModal
  \/ CloseUploadModal
  \/ \E f \in Files : handleFileSelect(f)
  \/ RemoveSelectedFile
  \/ RemoveDocument
  \/ handleUpload
  \/ \E x \in DOMAIN xhrs, p \in ProgressPcts : UploadProgressEvent(x, p)
  \/ \E x \in DOMAIN xhrs, data \in UploadBodies : UploadLoaded(x, data)
  \/ \E x \in DOMAIN xhrs, st \in FailStatuses : UploadStatusError(x, st)
  \/ \E x \in DOMAIN xhrs : UploadNetworkError(x)

SelectionNext ==
  \/ \E t \in Texts : SelectionChange(t)
  \/ handleMouseUp
  \/ handleAskAgoraLearn

ReloadNext == \E persists \in BOOLEAN, writable \in BOOLEAN : Reload(persists, writable)

Next ==
  InputNext \/ ConverseNext \/ VoiceNext \/ UploadNext \/ SelectionNext \/ ReloadNext

\* every operation of the component
Spec == Init /\ [][Next]_vars

\* the voice pipeline and the converse requests it leads to
SpecVoice == Init /\ [][VoiceNext \/ ConverseNext]_vars

\* the document changing under the voice pipeline and its queries.  The two
\* upload actions left out (closing the modal, deselecting the file) write
\* only showUploadModal and uploadedFile, which no callback reads.
DocNext ==
  \/ OpenUploadModal
  \/ \E f \in Files : handleFileSelect(f)
  \/ RemoveDocument
  \/ handleUpload
  \/ \E x \in DOMAIN xhrs, p \in ProgressPcts : UploadProgressEvent(x, p)
  \/ \E x \in DOMAIN xhrs, data \in UploadBodies : UploadLoaded(x, data)
  \/ \E x \in DOMAIN xhrs, st \in FailStatuses : UploadStatusError(x, st)
  \/ \E x \in DOMAIN xhrs : UploadNetworkError(x)

SpecDoc == Init /\ [][DocNext \/ VoiceNext \/ ConverseNext]_vars

\* the upload pipeline with every event of its user interface, and the
\* text input beside it
SpecUpload == Init /\ [][UploadNext \/ InputNext]_vars

\* the queries the user sends from the text input and from the selection
\* popup, with the document changing
SpecQuery == Init /\ [][InputNext \/ SelectionNext \/ ConverseNext \/ DocNext]_vars

\* sendQuery applied to every text, beside the text input
SendNext == \E t \in Texts : sendQueryCall(t)

SpecSend == Init /\ [][SendNext \/ InputNext \/ ConverseNext]_vars

\* the conversation identifier over successive loads, with the queries that
\* send it
SpecConv == Init /\ [][ReloadNext \/ InputNext \/ SelectionNext \/ ConverseNext]_vars

\* ---- scheduling the browser guarantees: a pending timeout fires and a
\* queued stop event is dispatched
VoiceFairness ==
  \A s \in 1..MaxSessions : WF_vars(TimerFire(s)) /\ WF_vars(OnStop(s))

LiveVoice == SpecVoice /\ VoiceFairness

\* ======================================================================
\* Properties
\* ======================================================================

Last(seq) == seq[Len(seq)]
Extends(new, old) == Len(new) = Len(old) + 1 /\ SubSeq(new, 1, Len(old)) = old
NonBlank(t) == \E i \in DOMAIN t : t[i] # " "
ActiveDocId == IF uploadedDoc = NoDoc THEN NoDocId ELSE uploadedDoc.id
UserAt(i, q) == messages[i].role = "user" /\ messages[i].q = q
AssistantAt(i, q) == messages[i].role = "assistant" /\ messages[i].q = q

\* C1: the message log is append-only.  Every step leaves the log as it was,
\* calling pushMessage no time, or calls pushMessage once and extends the log
\* by exactly that one message at its end, the earlier messages kept in place
\* and unmodified; so N calls leave the log exactly N longer.
C1_LogAppendOnly ==
  [][ \/ pushes' = pushes /\ messages' = messages
      \/ pushes' = pushes + 1 /\ Extends(messages', messages) ]_vars

\* C1 witness: the three pipelines have interleaved: an upload is in flight
\* while the log holds a voice notice, a user message and an answer to it.
C1_Witness ==
  /\ xhrs # <<>>
  /\ \E i, j, k \in DOMAIN messages :
        /\ messages[i].content = NotHeardText
        /\ UserAt(j, 1) /\ AssistantAt(k, 1)

\* C2: a converse request is issued only after its user message is in the
\* log: every request in flight has its user message, with the text it
\* sent; user messages stand in submission order; and the assistant message
\* of a query stands after that query's user message.
C2_UserMessageFirst ==
  /\ \A r \in queries : \E i \in DOMAIN messages :
        UserAt(i, r.q) /\ messages[i].content = r.payload.query
  /\ \A i, j \in DOMAIN messages :
        (i < j /\ messages[i].role = "user" /\ messages[j].role = "user")
           => messages[i].q < messages[j].q
  /\ \A j \in DOMAIN messages :
        (messages[j].role = "assistant" /\ messages[j].q # 0)
           => \E i \in 1..(j - 1) : UserAt(i, messages[j].q)

\* C2 witness: two queries were in flight together and the second was
\* answered first.
C2_Witness ==
  \E i, j \in DOMAIN messages : i < j /\ AssistantAt(i, 2) /\ AssistantAt(j, 1)

\* C3: a converse request that fails (network failure or non-success
\* status) appends exactly one assistant message with the fallback text,
\* records an error, and leaves the query's user message and every other
\* earlier message untouched.
C3_Failure(r) ==
  /\ Extends(messages', messages)
  /\ Last(messages').role = "assistant"
  /\ Last(messages').content = FallbackText
  /\ error' # NoError
  /\ \E i \in DOMAIN messages : UserAt(i, r.q) /\ messages'[i] = messages[i]

C3_FailedQueryFallback ==
  [][ \A r \in queries :
        ( \/ ConverseNetworkError(r)
          \/ \E st \in FailStatuses : ConverseStatusError(r, st) )
        => C3_Failure(r) ]_vars

\* C3 witness: a query failed with status 500: its user message is followed
\* by the fallback message and the error is recorded.
C3_Witness ==
  /\ error = ServerErrorText(500)
  /\ \E i \in DOMAIN messages :
        /\ i > 1 /\ messages[i].content = FallbackText
        /\ UserAt(i - 1, messages[i].q)

\* C4: every converse request carries docId if and only if a document is
\* active when it is sent, and then the active document's identifier.
C4_ConverseDocIsActive ==
  [][ \A r \in queries' \ queries : r.payload.docId = ActiveDocId ]_vars

\* C5: the transcription request sent when a recording stops carries the
\* identifier of the document active at that moment, and none otherwise.
C5_VoiceDocIsActive ==
  [][ \A s \in DOMAIN sessions :
        (sessions[s].phase = "stopping" /\ sessions'[s].phase = "stt")
           => sessions'[s].form.docId = ActiveDocId ]_vars

\* C6: every recording session that starts ends: a started recorder becomes
\* inactive, by the toggle or by the timer, and isRecording is false again.
C6_RecordingEnds ==
  \A s \in 1..MaxSessions :
     (s \in DOMAIN sessions /\ sessions[s].phase = "recording")
        ~> (s \in DOMAIN sessions /\ sessions[s].phase \in {"stt", "done"}
              /\ ~isRecording)

\* C6 witness: a session has ended, its timer has fired, and the control is
\* idle again.
C6_Witness ==
  \E s \in DOMAIN sessions :
     sessions[s].phase = "stt" /\ ~sessions[s].timer /\ ~isRecording

\* C7: in every state where no recording session is active, no microphone
\* stream is held.
C7_StreamReleased ==
  (\A s \in DOMAIN sessions : sessions[s].phase # "recording")
     => (\A s \in DOMAIN sessions : ~sessions[s].stream)

\* C8: when microphone access fails the control is idle again, the error is
\* set, no message is appended and no request is sent, then or later, by
\* that session.
C8_MicFailure ==
  [][ \A s \in DOMAIN sessions :
        /\ (sessions[s].phase = "mic" /\ sessions'[s].phase = "denied")
              => /\ isRecording' = FALSE
                 /\ error' = MicErrorText
                 /\ messages' = messages
                 /\ queries' = queries /\ nQueries' = nQueries
                 /\ sessions'[s].form = NoForm
        /\ sessions[s].phase = "denied" => sessions'[s] = sessions[s] ]_vars

\* C8 witness: microphone access was refused: idle, with the banner's error.
C8_Witness ==
  \E s \in DOMAIN sessions :
     sessions[s].phase = "denied" /\ ~isRecording /\ error = MicErrorText

\* C9: after a successful transcription response, a transcript (the
\* question field, or else the transcript field) that is a non-blank string
\* goes to sendQuery exactly once: one user message with that text, one
\* converse request for it.  An empty, blank, missing or non-string
\* transcript appends exactly one "couldn't hear" message and sends nothing.
C9_Transcript(j) == IF j.question # Missing THEN j.question ELSE j.transcript

C9_Forwarded(t) ==
  /\ Extends(messages', messages)
  /\ Last(messages').role = "user" /\ Last(messages').content = t
  /\ nQueries' = nQueries + 1
  /\ \E r \in queries' :
        /\ queries' \ queries = {r} /\ queries \subseteq queries'
        /\ r.payload.query = t /\ r.q = Last(messages').q

C9_NotHeard ==
  /\ Extends(messages', messages)
  /\ Last(messages').role = "assistant" /\ Last(messages').content = NotHeardText
  /\ nQueries' = nQueries /\ queries' = queries

C9_TranscriptForwardedOnce ==
  [][ \A s \in DOMAIN sessions : \A j \in VoiceBodies :
        VoiceBody(s, j) =>
           IF C9_Transcript(j) \in Texts /\ NonBlank(C9_Transcript(j))
           THEN C9_Forwarded(C9_Transcript(j))
           ELSE C9_NotHeard ]_vars

\* C9 witness: one recording gave a blank transcript and was answered with
\* the notice, another gave a question whose converse request is in flight.
C9_Witness ==
  /\ \E i \in DOMAIN messages : messages[i].content = NotHeardText
  /\ \E r \in queries : r.origin = "voice"

\* C10: a converse response with a success status and none of the expected
\* answer fields is a hard failure of the query: the fallback message is
\* appended and an error is recorded.
C10_NoAnswerField(body) ==
  body.answer = Missing /\ body.assistantText = Missing /\ body.kind # "string"

C10_MalformedAnswerFails ==
  [][ \A r \in queries : \A body \in ConverseBodies :
        (ConverseBody(r, body) /\ C10_NoAnswerField(body))
           => /\ Last(messages').content = FallbackText
              /\ error' # NoError ]_vars

\* C11: a transport error (network failure or non-success status) on any of
\* the three endpoints records an error for the banner: a failed converse
\* request, a failed upload, and a failed transcription request alike.
C11_TransportErrorSetsError ==
  [][ /\ \A r \in queries :
           ( \/ ConverseNetworkError(r)
             \/ \E st \in FailStatuses : ConverseStatusError(r, st) )
           => error' # NoError
      /\ \A x \in DOMAIN xhrs :
           ( \/ UploadNetworkError(x)
             \/ \E st \in FailStatuses : UploadStatusError(x, st) )
           => error' # NoError
      /\ \A s \in DOMAIN sessions :
           VoiceError(s) => error' # NoError ]_vars

\* C12: a failed upload (non-success status, network error, or a response
\* with no identifier) leaves the active document as it was and records an
\* error; and when an upload attempt finishes, successfully or not,
\* isUploading is false and uploadProgress is null.
C12_FailedUpload(x) ==
  \/ UploadNetworkError(x)
  \/ \E st \in FailStatuses : UploadStatusError(x, st)
  \/ \E data \in UploadBodies : UploadIdOf(data) = NoDocId /\ UploadLoaded(x, data)

C12_FinishedUpload(x) ==
  \/ C12_FailedUpload(x)
  \/ \E data \in UploadBodies : UploadLoaded(x, data)

C12_UploadFailureKeepsDoc ==
  [][ \A x \in DOMAIN xhrs :
        /\ C12_FailedUpload(x) => (uploadedDoc' = uploadedDoc /\ error' # NoError)
        /\ C12_FinishedUpload(x) =>
              (isUploading' = FALSE /\ uploadProgress' = NoProgress) ]_vars

\* C12 witness: with a document active, a later upload was answered with no
\* identifier: the document is still active, the error is recorded, and the
\* upload indicators are reset.
C12_Witness ==
  /\ uploadedDoc # NoDoc
  /\ error = MissingIdText
  /\ xhrs = <<>> /\ ~isUploading /\ uploadProgress = NoProgress

\* C13: at most one upload transfer is in flight at any time, and
\* isUploading tells whether one is.
C13_OneUploadInFlight ==
  /\ Len(xhrs) <= 1
  /\ isUploading <=> xhrs # <<>>

\* C13 witness: a transfer is in flight after an earlier one has finished
\* (a document is active), with another file selected meanwhile and the
\* modal closed.
C13_Witness ==
  /\ Len(xhrs) = 1 /\ uploadedDoc # NoDoc
  /\ ~showUploadModal /\ uploadProgress = 50


\* C14: the conversation identifier never changes during a load of the
\* application, whatever the operations; and when the stored value persists
\* to the next load, that load starts with the identical identifier.
C14_ConversationIdStable ==
  [][ /\ loads' = loads => conversationId' = conversationId
      /\ (loads' = loads + 1 /\ storage # NoConv /\ storage' = storage)
            => conversationId' = conversationId ]_vars

\* C14 witness: a second load runs with the identifier the first load
\* generated and stored, and has sent it with a query.
C14_Witness ==
  /\ loads = 2
  /\ conversationId = FreshConv(1) /\ storage = FreshConv(1)
  /\ \E r \in queries : r.payload.conversationId = FreshConv(1)


\* C15: no failure is retried.  A step sends at most one converse request,
\* and only when the user sends a text, asks about a selection, or a
\* transcript arrives; at most one upload request, and only on a click of
\* Upload; a transcription request only when a recording stops, and one
\* session never a second one nor a second query; so a failure step sends
\* nothing, and the requests never outnumber the user's actions.
C15_UserSend ==
  \/ handleSendMessage
  \/ handleAskAgoraLearn
  \/ \E s \in DOMAIN sessions, j \in VoiceBodies : VoiceBody(s, j)

C15_PhaseOrder(from, to) ==
  \/ from = to
  \/ from = "mic" /\ to \in {"recording", "denied"}
  \/ from = "recording" /\ to = "stopping"
  \/ from = "stopping" /\ to = "stt"
  \/ from = "stt" /\ to = "done"

C15_NoRetry ==
  [][ /\ \/ (queries' \subseteq queries /\ nQueries' = nQueries)
         \/ ( /\ nQueries' = nQueries + 1
              /\ Cardinality(queries' \ queries) = 1
              /\ C15_UserSend )
      /\ \/ Len(xhrs') <= Len(xhrs)
         \/ (Len(xhrs') = Len(xhrs) + 1 /\ handleUpload)
      /\ \A s \in DOMAIN sessions :
            /\ s \in DOMAIN sessions'
            /\ C15_PhaseOrder(sessions[s].phase, sessions'[s].phase)
            /\ (sessions[s].phase = "stopping" /\ sessions'[s].phase = "stt") => OnStop(s)
            /\ (sessions[s].form = NoForm /\ sessions'[s].form # NoForm) => OnStop(s)
            /\ (sessions[s].phase = "stt" /\ sessions'[s].phase = "done") =>
                  Cardinality(queries' \ queries) <= 1 ]_vars

\* C15 witness: a request of each endpoint has failed (the voice notice,
\* the fallback message, the upload error) and nothing is in flight after.
C15_Witness ==
  /\ \E i \in DOMAIN messages : messages[i].content = VoiceFailedText
  /\ \E i \in DOMAIN messages : messages[i].content = FallbackText
  /\ error = UploadNetworkText
  /\ queries = {} /\ xhrs = <<>> /\ ~isLoading /\ ~isUploading
  /\ \A s \in DOMAIN sessions : sessions[s].phase = "done"


\* C16: sendQuery with a text that is empty or blank after trimming does
\* nothing: no message, no request, and isLoading, error and the input value
\* as they were; so does sending a blank input.
C16_BlankQueryNoOp ==
  [][ /\ \A t \in Texts :
           (Trim(t) = <<>> /\ sendQueryCall(t))
              => UNCHANGED <<messages, queries, nQueries, isLoading, error, inputValue>>
      /\ (Trim(inputValue) = <<>> /\ handleSendMessage)
              => UNCHANGED <<messages, queries, nQueries, isLoading, error, inputValue>> ]_vars

\* C16 witness: a blank text is in the input, nothing is loading, and an
\* earlier failure's error is set (a query that is sent clears it): a blank
\* query here leaves this very state.
C16_Witness ==
  /\ inputValue = <<" ">>
  /\ ~isLoading /\ queries = {}
  /\ error # NoError
  /\ ENABLED sendQueryCall(<<" ">>)


\* C17: the selection context is cleared whenever the text selection
\* becomes empty: in every state where the browser's selection is empty,
\* the "Ask AgoraLearn" popup is not shown.
C17_PopupClearedWithSelection ==
  selection = <<>> => ~(popupPosition /\ selectedText # NullText)

\* C18: isLoading is true in every state in which a converse request is in
\* flight, overlapping queries included.
C18_LoadingWhileInFlight ==
  queries # {} => isLoading

\* C19: the timer armed for one recording session stops that session's
\* recorder only: a recorder stops recording only when its own timer fires
\* or when the user presses Stop, so the timer of a session the user ended
\* early never stops or shortens a later session.
C19_TimerStopsOwnRecorder ==
  [][ /\ \A t \in DOMAIN sessions :
           (sessions[t].phase = "recording" /\ sessions'[t].phase # "recording")
              => \/ (sessions[t].timer /\ ~sessions'[t].timer)
                 \/ VoiceToggleStop
      /\ \A s \in DOMAIN sessions :
           TimerFire(s) =>
              \A t \in DOMAIN sessions : t # s => sessions'[t] = sessions[t] ]_vars

\* C19 witness: the first session is over and its timer has fired, while
\* the second session is still recording with its own timer pending.
C19_Witness ==
  /\ Len(sessions) = 2
  /\ sessions[1].phase \in {"stt", "done"} /\ ~sessions[1].timer
  /\ sessions[2].phase = "recording" /\ sessions[2].timer
  /\ mediaRecorderRef = 2

\* C20: once the user has pressed Stop, no recorder is active until the user
\* starts a new session, also when Stop was pressed while the microphone
\* request was pending.
C20_StopEndsSession ==
  stopPressed => \A s \in DOMAIN sessions : sessions[s].phase # "recording"


====
